---- MODULE Spec2Model ----
(***************************************************************************)
(* The resumable chunked ETL of etl_processor.py / main_etl.py as a state  *)
(* machine.  The persistent state is the destination tables and the        *)
(* etl_log checkpoints; the transient state is the position of the single  *)
(* sequential flow of control inside main / run_multi_source_etl /         *)
(* run_full_etl / clear_data_tables / process_csv_to_db.                   *)
(***************************************************************************)
EXTENDS Integers, Sequences, FiniteSets, TLC

\* ------------------------------------------------------------------ bounds
MaxEvents == 3    \* invocations plus injected failures over a behaviour
BatchSize == 2    \* config["etl_settings"]["batch_size"]
MaxChunkRows == 2 \* rows of a chunk handed to a transform function
MaxCourses == 2   \* rows of courses_df

\* ------------------------------------------------------------------ state
VARIABLES
    backend,         \* the database chosen in display_db_menu
    fs,              \* what the file system holds: "full" or "cut"
    rows,            \* rows[t]: the rows of destination table t
    etl_log,         \* etl_log[t]: last processed chunk of t (0: no record)
    created,         \* the tables that exist in the database
    txn,             \* the open engine.begin() transaction, or NoTxn
    pc,              \* position of the flow of control
    entry,           \* "main" or "direct" (run_full_etl called by itself)
    sources,         \* data_sources of run_multi_source_etl
    srcIdx,          \* the loop index i of run_multi_source_etl, 1-based
    data_path,       \* config etl_settings.data_path of run_full_etl
    clear_existing,  \* clear_existing_data of run_full_etl
    available_tables,
    tbl,             \* position in available_tables
    start_chunk,     \* process_csv_to_db's start_chunk
    chunk_index,     \* process_csv_to_db's current_chunk_index
    status,          \* status[t]: state of the load of t in this run
    failStage,       \* where the last failure of this invocation struck
    runs,            \* invocations so far
    faults,          \* failures and interruptions injected so far
    startRows,       \* rows when this run_full_etl was called
    startLog,        \* etl_log when this run_full_etl was called
    invRows,         \* rows when this invocation started
    pre,             \* rows and etl_log before the current commit attempt
    commits,         \* <<table, source, chunk>> committed in this run_full_etl
    invOk,           \* every run_full_etl of this invocation completed
    prev,            \* how the previous invocation went
    table_name,      \* the table whose transform function is applied
    chunk,           \* the chunk read_csv yields, before the transform
    courses_df,      \* the courses preloaded by run_full_etl
    transformed_chunk, \* what transform_func(chunk, **kwargs) returned
    applied          \* transform_func has returned

vars == <<backend, fs, rows, etl_log, created, txn, pc, entry, sources,
          srcIdx, data_path, clear_existing, available_tables, tbl, start_chunk,
          chunk_index, status, failStage, runs, faults, startRows, startLog,
          invRows, pre, commits, invOk, prev, table_name, chunk, courses_df,
          transformed_chunk, applied>>

xform == <<table_name, chunk, courses_df, transformed_chunk, applied>>
env == <<backend, fs, xform>>
db == <<rows, etl_log, created, txn>>
frame == <<entry, sources, srcIdx, data_path, clear_existing>>
loadVars == <<available_tables, tbl, start_chunk, chunk_index>>
runHist == <<startRows, startLog, commits>>

\* ------------------------------------------------------------ environment
\* Orden de ejecucion / data_tables: the seven known destination tables.
execution_order ==
    <<"courses", "vle", "studentInfo", "studentRegistration",
      "assessments", "studentAssessment", "studentVle">>

data_tables == execution_order

TableNames == {execution_order[n] : n \in 1..Len(execution_order)}

Backends == {"mysql", "sqlite"}

\* The directories a run may be pointed at, and the rows of each <table>.csv
\* they hold ("absent" is a path that does not exist).
DataSources == {"data", "data_2", "no_courses", "absent"}

FileRows ==
    [data       |-> [courses |-> 4, vle |-> 1, studentInfo |-> 1,
                     studentRegistration |-> 1, assessments |-> 1,
                     studentAssessment |-> 1, studentVle |-> 1],
     data_2     |-> [courses |-> 5, studentInfo |-> 1, assessments |-> 3],
     data_2_cut |-> [courses |-> 5, assessments |-> 3],
     no_courses |-> [studentInfo |-> 1, vle |-> 1],
     absent     |-> [none |-> 0]]

PathExists(path) == path # "absent"

\* The files found in a directory: ./data_2/ is there in full, or without
\* its studentInfo.csv.
Files(path) ==
    IF fs = "cut" /\ path = "data_2" THEN FileRows["data_2_cut"]
    ELSE FileRows[path]

FileExists(path, t) == PathExists(path) /\ t \in DOMAIN Files(path)

Min(a, b) == IF a <= b THEN a ELSE b

\* pd.read_csv(chunksize=batch_size): the number of chunks of a file.
NumBatches(path, t) == (Files(path)[t] + BatchSize - 1) \div BatchSize

\* The rows of chunk number idx (1-based) of <t>.csv in path; a row is named
\* by its source and its position in the file.
Chunk(path, t, idx) ==
    [r \in 1..(Min(idx * BatchSize, Files(path)[t]) - (idx - 1) * BatchSize)
        |-> <<path, (idx - 1) * BatchSize + r>>]

RECURSIVE ChunksUpTo(_, _, _)
ChunksUpTo(path, t, k) ==
    IF k = 0 THEN <<>> ELSE ChunksUpTo(path, t, k - 1) \o Chunk(path, t, k)

\* The chunk a row of a file belongs to.
BatchOf(row) == (row[2] + BatchSize - 1) \div BatchSize

NoTxn == [open |-> FALSE]

NoRows == [t \in TableNames |-> <<>>]
NoLog == [t \in TableNames |-> 0]
NotStarted == [t \in TableNames |-> "NotStarted"]

\* The state of a new database, before the first invocation.
Fresh ==
    /\ backend \in Backends
    /\ rows = NoRows
    /\ etl_log = NoLog
    /\ created = {}
    /\ txn = NoTxn
    /\ pc = "idle"
    /\ entry = "none"
    /\ sources = <<>>
    /\ srcIdx = 0
    /\ data_path = "absent"
    /\ clear_existing = FALSE
    /\ available_tables = <<>>
    /\ tbl = 0
    /\ start_chunk = 0
    /\ chunk_index = 0
    /\ status = NotStarted
    /\ failStage = "none"
    /\ runs = 0
    /\ faults = 0
    /\ startRows = NoRows
    /\ startLog = NoLog
    /\ invRows = NoRows
    /\ pre = [rows |-> NoRows, etl_log |-> NoLog]
    /\ commits = <<>>
    /\ invOk = TRUE
    /\ prev = [entry |-> "none", sources |-> <<>>, completed |-> FALSE,
               lastCompleted |-> FALSE]

\* No chunk is under a transform function.
NoChunk ==
    /\ table_name = "none"
    /\ chunk = <<>>
    /\ courses_df = <<>>
    /\ transformed_chunk = <<>>
    /\ applied = FALSE

Init == Fresh /\ fs = "full" /\ NoChunk

\* ------------------------------------------------------- collaborators
\* db_utils: the checkpoint store behind etl_log.
get_last_processed_chunk(log, t) == log[t]

update_etl_log(log, t, idx) == [log EXCEPT ![t] = idx]

clear_etl_logs(log) == NoLog

\* table_exists asks sqlite_master: on any other backend the query raises,
\* the exception is swallowed and the answer is False.
table_exists(t) == backend = "sqlite" /\ t \in created

\* A rollback that leaves the checkpoint update in place.
RollbackRowsOnly(snap, cur) == [snap EXCEPT !.etl_log = cur.etl_log]

\* A transaction whose data write is not undone (a connection in
\* autocommit, a table of a non-transactional storage engine).
RollbackLogOnly(snap, cur) == [snap EXCEPT !.rows = cur.rows]

\* engine.begin(): leaving the block with an exception restores the
\* database to what it was when the block was entered.
Rollback(snap, cur) == snap

Snapshot == [open |-> TRUE, rows |-> rows, etl_log |-> etl_log,
             created |-> created]

Current == [open |-> TRUE, rows |-> rows, etl_log |-> etl_log,
            created |-> created]

\* What a reader outside the open transaction sees.
StoredRows == IF txn.open THEN txn.rows ELSE rows
StoredLog == IF txn.open THEN txn.etl_log ELSE etl_log

\* ------------------------------------------------------------- main_etl
get_data_sources(choice) ==
    CASE choice = "1" -> <<"data">>
      [] choice = "2" -> <<"data_2">>
      [] choice = "3" -> <<"data", "data_2">>
      [] OTHER -> <<>>

essential_files == {"courses", "studentInfo"}

\* A validation that looks at the directory only.
ValidatesPathOnly(path) == PathExists(path)

validate_data_source(path) ==
    /\ PathExists(path)
    /\ \A f \in essential_files : FileExists(path, f)

valid_sources(choice) ==
    SelectSeq(get_data_sources(choice), validate_data_source)

\* clear_existing = (i == 0) or (len(data_sources) == 1), i counted from 1.
\* A reset before every source.
ClearsBeforeEverySource(i, n) == TRUE

ClearExistingFor(i, n) == (i = 1) \/ (n = 1)

\* The available tables taken in the opposite order.
AvailableTablesReversed(path) ==
    [n \in 1..Len(SelectSeq(execution_order, LAMBDA t : FileExists(path, t)))
        |-> SelectSeq(execution_order, LAMBDA t : FileExists(path, t))
              [Len(SelectSeq(execution_order,
                             LAMBDA t : FileExists(path, t))) + 1 - n]]

\* The tables of the execution order whose file is in the source.
AvailableTables(path) ==
    SelectSeq(execution_order, LAMBDA t : FileExists(path, t))

\* Entering run_full_etl(engine, config, clear_existing_data).
EnterRunFullEtl(path, clear) ==
    /\ data_path' = path
    /\ clear_existing' = clear
    /\ pc' = "summary"
    /\ status' = NotStarted
    /\ available_tables' = <<>>
    /\ tbl' = 0
    /\ start_chunk' = 0
    /\ chunk_index' = 0
    /\ startRows' = rows
    /\ startLog' = etl_log
    /\ commits' = <<>>

\* main(): choose the sources, validate them, confirm, and hand them to
\* run_multi_source_etl, which enters run_full_etl for the first of them.
\* (A "no" to a confirmation leaves main before anything is touched.)
Main ==
    /\ pc = "idle"
    /\ runs + faults < MaxEvents
    /\ \E choice \in {"1", "2", "3"} :
         /\ valid_sources(choice) # <<>>
         /\ sources' = valid_sources(choice)
         /\ srcIdx' = 1
         /\ EnterRunFullEtl(valid_sources(choice)[1],
                            ClearExistingFor(1, Len(valid_sources(choice))))
    /\ entry' = "main"
    /\ runs' = runs + 1
    /\ failStage' = "none"
    /\ invOk' = TRUE
    /\ invRows' = rows
    /\ UNCHANGED <<env, db, faults, pre, prev>>

\* run_full_etl called by itself on a source, with either reset flag.
Direct ==
    /\ pc = "idle"
    /\ runs + faults < MaxEvents
    /\ \E path \in DataSources, clear \in BOOLEAN :
         /\ sources' = <<path>>
         /\ EnterRunFullEtl(path, clear)
    /\ srcIdx' = 1
    /\ entry' = "direct"
    /\ runs' = runs + 1
    /\ failStage' = "none"
    /\ invOk' = TRUE
    /\ invRows' = rows
    /\ UNCHANGED <<env, db, faults, pre, prev>>

\* ---------------------------------------------------------- run_full_etl
\* get_data_source_summary: is_valid is False only when the path is missing;
\* then run_full_etl returns before anything else.
Summary ==
    /\ pc = "summary"
    /\ IF ~PathExists(data_path)
         THEN /\ pc' = "done"
              /\ failStage' = "abort"
              /\ invOk' = FALSE
         ELSE /\ pc' = IF clear_existing THEN "clear_tables" ELSE "setup"
              /\ UNCHANGED <<failStage, invOk>>
    /\ UNCHANGED <<env, db, frame, loadVars, status, runs, faults,
                   runHist, invRows, pre, prev>>

\* clear_data_tables, first part: one transaction that deletes the rows of
\* every data table that table_exists reports; a DELETE that raises is
\* reported and the loop goes on.
ClearDataTables ==
    /\ pc = "clear_tables"
    /\ \E failing \in SUBSET {t \in TableNames : table_exists(t)} :
         /\ Cardinality(failing) <= MaxEvents - runs - faults
         /\ rows' = [t \in TableNames |->
                       IF table_exists(t) /\ t \notin failing
                         THEN <<>> ELSE rows[t]]
         /\ faults' = faults + Cardinality(failing)
         /\ failStage' = IF failing = {} THEN failStage ELSE "delete"
    /\ pc' = "clear_logs"
    /\ UNCHANGED <<env, etl_log, created, txn, frame, loadVars, status,
                   runs, runHist, invRows, pre, invOk, prev>>

\* clear_data_tables, second part: the checkpoints, only if etl_log is
\* reported to exist; an exception is reported and swallowed.
ClearEtlLogs ==
    /\ pc = "clear_logs"
    /\ \/ /\ table_exists("etl_log")
          /\ etl_log' = clear_etl_logs(etl_log)
          /\ UNCHANGED <<faults, failStage>>
       \/ /\ table_exists("etl_log")
          /\ runs + faults < MaxEvents
          /\ faults' = faults + 1
          /\ failStage' = "clear_logs"
          /\ UNCHANGED etl_log
       \/ /\ ~table_exists("etl_log")
          /\ UNCHANGED <<etl_log, faults, failStage>>
    /\ pc' = "setup"
    /\ UNCHANGED <<env, rows, created, txn, frame, loadVars, status,
                   runs, runHist, invRows, pre, invOk, prev>>

\* db_utils.setup_etl_log_table(engine)
SetupEtlLogTable ==
    /\ pc = "setup"
    /\ created' = created \cup {"etl_log"}
    /\ pc' = "preload"
    /\ UNCHANGED <<env, rows, etl_log, txn, frame, loadVars, status,
                   failStage, runs, faults, runHist, invRows, pre, invOk,
                   prev>>

\* The preload of courses.csv (fatal when the file is missing), then the
\* filter of the execution order down to the tables of the source.
Preload ==
    /\ pc = "preload"
    /\ IF ~FileExists(data_path, "courses")
         THEN /\ pc' = "done"
              /\ failStage' = "abort"
              /\ invOk' = FALSE
              /\ UNCHANGED <<available_tables, tbl>>
         ELSE /\ available_tables' = AvailableTables(data_path)
              /\ tbl' = 1
              /\ pc' = "lookup"
              /\ UNCHANGED <<failStage, invOk>>
    /\ UNCHANGED <<env, db, frame, start_chunk, chunk_index, status,
                   runs, faults, runHist, invRows, pre, prev>>

\* ----------------------------------------------------- process_csv_to_db
CurrentTable == available_tables[tbl]

AllCompleted(st) ==
    \A n \in 1..Len(available_tables) : st[available_tables[n]] = "Completed"

\* process_csv_to_db returns (normally, or after its except block): the
\* loop of run_full_etl calls it for the next available table, or ends.
FinishTable(outcome) ==
    /\ status' = [status EXCEPT ![CurrentTable] = outcome]
    /\ IF tbl < Len(available_tables)
         THEN /\ tbl' = tbl + 1
              /\ pc' = "lookup"
              /\ UNCHANGED invOk
         ELSE /\ tbl' = tbl
              /\ pc' = "done"
              /\ invOk' = (invOk /\ AllCompleted(status'))

\* A try block that covers no statement.
TryCoversNothing(stage) == FALSE

\* The try block of process_csv_to_db starts after the lookup of the
\* resume point: reading, transforming and committing are inside it.
InsideTry(stage) == stage # "lookup"

\* A statement of process_csv_to_db raises an exception: inside the try
\* block "except Exception" reports it and the function returns; outside,
\* the exception leaves process_csv_to_db and its callers.
Caught(stage) ==
    /\ runs + faults < MaxEvents
    /\ faults' = faults + 1
    /\ failStage' = stage
    /\ IF InsideTry(stage)
         THEN FinishTable("Failed")
         ELSE /\ pc' = "raised"
              /\ status' = [status EXCEPT ![CurrentTable] = "Failed"]
              /\ invOk' = FALSE
              /\ UNCHANGED tbl

\* start_chunk = db_utils.get_last_processed_chunk(table_name, engine),
\* the statement before the try block.
Lookup ==
    /\ pc = "lookup"
    /\ FileExists(data_path, CurrentTable)
    /\ start_chunk' = get_last_processed_chunk(etl_log, CurrentTable)
    /\ chunk_index' = 0
    /\ status' = [status EXCEPT ![CurrentTable] = "Streaming"]
    /\ pc' = "next_chunk"
    /\ UNCHANGED <<env, db, frame, available_tables, tbl, failStage,
                   runs, faults, runHist, invRows, pre, invOk, prev>>

LookupRaises ==
    /\ pc = "lookup"
    /\ Caught("lookup")
    /\ UNCHANGED <<env, db, frame, available_tables, start_chunk,
                   chunk_index, runs, runHist, invRows, pre, prev>>

\* A resume test that re-processes the chunk the checkpoint names.
SkipsBelow(idx, start) == idx < start

\* A resume test that skips nothing.
SkipsNothing(idx, start) == FALSE

\* if current_chunk_index <= start_chunk: continue
Skips(idx, start) == idx <= start

\* One turn of "for i, chunk in enumerate(reader)": the reader is exhausted
\* (the load completed), or the next chunk is read and either skipped
\* (current_chunk_index <= start_chunk) or handed to the transformation.
NextChunk ==
    /\ pc = "next_chunk"
    /\ IF chunk_index = NumBatches(data_path, CurrentTable)
         THEN /\ FinishTable("Completed")
              /\ UNCHANGED <<chunk_index, pre>>
         ELSE /\ chunk_index' = chunk_index + 1
              /\ IF Skips(chunk_index + 1, start_chunk)
                   THEN pc' = "next_chunk" /\ UNCHANGED pre
                   ELSE /\ pc' = "transform"
                        /\ pre' = [rows |-> rows, etl_log |-> etl_log]
              /\ UNCHANGED <<status, tbl, invOk>>
    /\ UNCHANGED <<env, db, frame, available_tables, start_chunk,
                   failStage, runs, faults, runHist, invRows, prev>>

ReadFails ==
    /\ pc = "next_chunk"
    /\ chunk_index < NumBatches(data_path, CurrentTable)
    /\ Caught("read")
    /\ UNCHANGED <<env, db, frame, available_tables, start_chunk,
                   chunk_index, runs, runHist, invRows, pre, prev>>

\* transformed_chunk = transform_func(chunk, **kwargs).  Here a row stands
\* for its source and position only; what the transform functions make of
\* the cells of a chunk is modelled under TransformSpec.
Transform ==
    /\ pc = "transform"
    /\ pc' = "to_sql"
    /\ UNCHANGED <<env, db, frame, loadVars, status, failStage, runs,
                   faults, runHist, invRows, pre, invOk, prev>>

TransformFails ==
    /\ pc = "transform"
    /\ Caught("transform")
    /\ UNCHANGED <<env, db, frame, available_tables, start_chunk,
                   chunk_index, runs, runHist, invRows, pre, prev>>

\* An append that reaches every table.
ToSqlEveryTable(tables, t, frame_rows) ==
    [u \in TableNames |-> tables[u] \o frame_rows]

\* transformed_chunk.to_sql(table_name, con=connection, if_exists="append")
to_sql(tables, t, frame_rows) == [tables EXCEPT ![t] = @ \o frame_rows]

\* with engine.begin() as connection: transformed_chunk.to_sql(append)
ToSql ==
    /\ pc = "to_sql"
    /\ txn' = Snapshot
    /\ rows' = to_sql(rows, CurrentTable,
                      Chunk(data_path, CurrentTable, chunk_index))
    /\ created' = created \cup {CurrentTable}
    /\ pc' = "update_log"
    /\ UNCHANGED <<env, etl_log, frame, loadVars, status, failStage,
                   runs, faults, runHist, invRows, pre, invOk, prev>>

ToSqlFails ==
    /\ pc = "to_sql"
    /\ Caught("to_sql")
    /\ UNCHANGED <<env, db, frame, available_tables, start_chunk,
                   chunk_index, runs, runHist, invRows, pre, prev>>

\* db_utils.update_etl_log(table_name, current_chunk_index, connection)
UpdateEtlLog ==
    /\ pc = "update_log"
    /\ etl_log' = update_etl_log(etl_log, CurrentTable, chunk_index)
    /\ pc' = "commit"
    /\ UNCHANGED <<env, rows, created, txn, frame, loadVars, status,
                   failStage, runs, faults, runHist, invRows, pre, invOk,
                   prev>>

\* The transaction block is left with an exception: the database goes
\* back to the snapshot, and the except block of process_csv_to_db runs.
RolledBack(stage) ==
    /\ rows' = Rollback(txn, Current).rows
    /\ etl_log' = Rollback(txn, Current).etl_log
    /\ created' = Rollback(txn, Current).created
    /\ txn' = NoTxn
    /\ Caught(stage)
    /\ UNCHANGED <<env, frame, available_tables, start_chunk,
                   chunk_index, runs, runHist, invRows, pre, prev>>

UpdateEtlLogFails ==
    /\ pc = "update_log"
    /\ RolledBack("update_log")

\* Leaving the transaction block normally commits it.
Commit ==
    /\ pc = "commit"
    /\ txn' = NoTxn
    /\ commits' = Append(commits, <<CurrentTable, data_path, chunk_index>>)
    /\ pc' = "next_chunk"
    /\ UNCHANGED <<env, rows, etl_log, created, frame, loadVars, status,
                   failStage, runs, faults, startRows, startLog, invRows,
                   pre, invOk, prev>>

CommitFails ==
    /\ pc = "commit"
    /\ RolledBack("commit")

\* ------------------------------------------------ the end of a call
Running == pc \notin {"idle", "done", "raised"}

\* KeyboardInterrupt (or the process being stopped): not an Exception, so
\* no except block of etl_processor catches it; an open transaction is
\* rolled back and the invocation is over.
Interrupt ==
    /\ Running
    /\ runs + faults < MaxEvents
    /\ faults' = faults + 1
    /\ failStage' = "interrupt"
    /\ invOk' = FALSE
    /\ IF txn.open
         THEN /\ rows' = Rollback(txn, Current).rows
              /\ etl_log' = Rollback(txn, Current).etl_log
              /\ created' = Rollback(txn, Current).created
              /\ txn' = NoTxn
         ELSE UNCHANGED db
    /\ pc' = "raised"
    /\ UNCHANGED <<env, frame, loadVars, status, runs, runHist, invRows,
                   pre, prev>>

\* The invocation is over: nothing of it survives but the database.
EndInvocation ==
    /\ pc' = "idle"
    /\ prev' = [entry |-> entry, sources |-> sources, completed |-> invOk,
                lastCompleted |-> (/\ pc = "done"
                                   /\ available_tables # <<>>
                                   /\ AllCompleted(status))]
    /\ entry' = "none"
    /\ sources' = <<>>
    /\ srcIdx' = 0
    /\ data_path' = "absent"
    /\ clear_existing' = FALSE
    /\ available_tables' = <<>>
    /\ tbl' = 0
    /\ start_chunk' = 0
    /\ chunk_index' = 0
    /\ status' = NotStarted
    /\ failStage' = "none"
    /\ startRows' = NoRows
    /\ startLog' = NoLog
    /\ invRows' = NoRows
    /\ pre' = [rows |-> NoRows, etl_log |-> NoLog]
    /\ commits' = <<>>
    /\ invOk' = TRUE
    /\ UNCHANGED <<env, db, runs, faults>>

\* run_full_etl returned: run_multi_source_etl goes on to the next source
\* (never with a reset), or the invocation ends.
Return ==
    /\ pc = "done"
    /\ IF entry = "main" /\ srcIdx < Len(sources)
         THEN /\ srcIdx' = srcIdx + 1
              /\ EnterRunFullEtl(sources[srcIdx + 1],
                                 ClearExistingFor(srcIdx + 1, Len(sources)))
              /\ UNCHANGED <<env, db, entry, sources, failStage, runs,
                             faults, invRows, pre, invOk, prev>>
         ELSE EndInvocation

\* The exception or interruption reaches the top of the program.
Unwind ==
    /\ pc = "raised"
    /\ EndInvocation

Next ==
    \/ Main
    \/ Direct
    \/ Summary
    \/ ClearDataTables
    \/ ClearEtlLogs
    \/ SetupEtlLogTable
    \/ Preload
    \/ Lookup
    \/ LookupRaises
    \/ NextChunk
    \/ ReadFails
    \/ Transform
    \/ TransformFails
    \/ ToSql
    \/ ToSqlFails
    \/ UpdateEtlLog
    \/ UpdateEtlLogFails
    \/ Commit
    \/ CommitFails
    \/ Interrupt
    \/ Return
    \/ Unwind

Spec == Init /\ [][Next]_vars

\* ----------------------------------------------------------- properties
Range(seq) == {seq[n] : n \in 1..Len(seq)}

IsPrefix(a, b) == Len(a) <= Len(b) /\ SubSeq(b, 1, Len(a)) = a

\* The chunks of table t committed by this run_full_etl, in commit order.
CommittedIn(t) == SelectSeq(commits, LAMBDA c : c[1] = t)

\* Table t held exactly chunks 1..k of the current source, k below the
\* number of chunks, and checkpoint k, when this run_full_etl was called.
LeftAt(t, k) ==
    /\ FileExists(data_path, t)
    /\ startLog[t] = k
    /\ k < NumBatches(data_path, t)
    /\ startRows[t] = ChunksUpTo(data_path, t, k)

InRunFullEtl == pc \notin {"idle"}

\* C1: a run_full_etl without reset, over the source whose load of table t
\* stopped after chunks 1..k (k < n), commits chunks k+1, k+2, ... of t in
\* this order and nothing else, leaves chunks 1..k as they are stored, and
\* has committed up to chunk n when the load of t completes.
C1_Resumability ==
    (InRunFullEtl /\ ~clear_existing) =>
        \A t \in TableNames :
            LeftAt(t, startLog[t]) =>
                /\ startLog[t] <= StoredLog[t]
                /\ StoredLog[t] <= NumBatches(data_path, t)
                /\ StoredRows[t] = ChunksUpTo(data_path, t, StoredLog[t])
                /\ CommittedIn(t) =
                     [j \in 1..(StoredLog[t] - startLog[t]) |->
                        <<t, data_path, startLog[t] + j>>]
                /\ (status[t] = "Completed" =>
                      StoredLog[t] = NumBatches(data_path, t))

\* C1 witness: after an invocation that did not complete, a run without
\* reset found chunk 1 of courses stored, and completed the load.
C1_Witness ==
    /\ pc = "done"
    /\ ~clear_existing
    /\ ~prev.completed
    /\ prev.sources = <<data_path>>
    /\ LeftAt("courses", 1)
    /\ status["courses"] = "Completed"
    /\ CommittedIn("courses") = <<<<"courses", data_path, 2>>>>

\* A step in which a statement of the commit transaction (the data write,
\* the checkpoint update, the commit itself) fails or is interrupted.
CommitAttemptFails ==
    /\ pc \in {"to_sql", "update_log", "commit"}
    /\ faults' = faults + 1

\* A chunk of the current table has been handed to the commit, and the
\* load has not gone on to the next chunk or table.
AttemptInView ==
    \/ pc \in {"transform", "to_sql", "update_log", "commit"}
    \/ pc = "next_chunk" /\ chunk_index > start_chunk

\* C2: when the data write or the checkpoint update of a commit fails, the
\* stored rows and the checkpoints are what they were before the attempt;
\* and no reader outside the transaction sees the rows of the table changed
\* without its checkpoint, or the checkpoint without the rows.
C2_Atomicity ==
    /\ [][CommitAttemptFails =>
             /\ rows' = pre.rows
             /\ etl_log' = pre.etl_log
             /\ ~txn'.open]_vars
    /\ [](AttemptInView =>
            ((StoredRows[CurrentTable] = pre.rows[CurrentTable])
               <=> (StoredLog[CurrentTable] = pre.etl_log[CurrentTable])))

\* C2 witness: the checkpoint update failed after the data write was made,
\* and the load of the table is reported failed.
C2_Witness ==
    /\ failStage = "update_log"
    /\ pc \in {"lookup", "done"}
    /\ \E t \in TableNames : status[t] = "Failed"
    /\ rows = pre.rows
    /\ etl_log = pre.etl_log

\* Every row of <t>.csv of the source is stored in table t.
HoldsFile(path, t) ==
    \A r \in 1..Files(path)[t] : <<path, r>> \in Range(StoredRows[t])

\* run_multi_source_etl went through both of its sources, every load of
\* both completed, and nothing failed on the way.
BothSourcesLoaded ==
    /\ entry = "main"
    /\ Len(sources) = 2
    /\ srcIdx = 2
    /\ pc = "done"
    /\ invOk
    /\ failStage = "none"

\* C3: after run_multi_source_etl has loaded source A and then source B
\* without failure, every table holds every row of A's file and every row
\* of B's file, and the rows stored when B's load began are still there.
C3_MultiSourceUnion ==
    BothSourcesLoaded =>
        \A t \in TableNames :
            /\ \A n \in 1..2 :
                 FileExists(sources[n], t) => HoldsFile(sources[n], t)
            /\ IsPrefix(startRows[t], StoredRows[t])

\* The invocation is the program run again, over the same sources, after
\* an invocation of the program that was interrupted or had a load fail.
RestartedAfterInterruption ==
    /\ entry = "main"
    /\ prev.entry = "main"
    /\ ~prev.completed
    /\ prev.sources = sources

\* C4: when the program is run again after an interrupted or failed run,
\* the rows committed before are kept, and no chunk of them is committed
\* again.
C4_RestartResumes ==
    RestartedAfterInterruption =>
        \A t \in TableNames :
            /\ IsPrefix(invRows[t], StoredRows[t])
            /\ \A n \in 1..Len(commits) :
                 commits[n][1] = t =>
                    Range(Chunk(commits[n][2], t, commits[n][3]))
                        \cap Range(invRows[t]) = {}

Max(S) == CHOOSE x \in S : \A y \in S : y <= x

\* The highest chunk index of which table t stores a row (0: none).
HighestStoredBatch(t) ==
    IF StoredRows[t] = <<>> THEN 0
    ELSE Max({BatchOf(StoredRows[t][n]) : n \in 1..Len(StoredRows[t])})

\* C5: outside an open commit transaction, the checkpoint of every table
\* is the index of the highest chunk whose rows the table stores.
C5_CheckpointMatchesData ==
    \A t \in TableNames : StoredLog[t] = HighestStoredBatch(t)

\* run_full_etl returned before its loop over the tables: the source is
\* invalid, or courses.csv is missing.
Aborted == pc = "done" /\ available_tables = <<>>

\* C6: a run_full_etl that aborts on an invalid source or on a missing
\* courses.csv leaves the tables and the checkpoints as they were when it
\* was called, whatever the reset flag.
C6_FatalNoWrites ==
    Aborted => (rows = startRows /\ etl_log = startLog)

\* C7: in a run_full_etl with the reset flag set, once the clearing step
\* is over and before the first chunk is committed, every table is empty
\* and no checkpoint remains.
C7_FullReset ==
    (clear_existing /\ pc \in {"setup", "preload"}) =>
        (rows = NoRows /\ etl_log = NoLog)

\* The position of a table in the fixed execution order.
OrderOf ==
    [t \in TableNames |->
        CHOOSE n \in 1..Len(execution_order) : execution_order[n] = t]

Precedes(u, t) == OrderOf[u] < OrderOf[t]

\* C8: over a source with all seven tables, a table of which this run has
\* committed a chunk has every table before it in the execution order
\* loaded in full.
C8_DependencyOrder ==
    (InRunFullEtl /\ Len(AvailableTables(data_path)) = Len(execution_order)) =>
        \A t \in TableNames :
            CommittedIn(t) # <<>> =>
                \A u \in TableNames :
                    Precedes(u, t) => HoldsFile(data_path, u)

LoadEnded(t) == status[t] \in {"Completed", "Failed"}

\* C8 as amended: when a chunk of a table is committed, the load of every
\* available table before it in the execution order has ended, Completed
\* with its checkpoint at or past its last chunk, or Failed; and the
\* commits of a run follow the execution order.  (Stated of the latest
\* commit, which every commit is in the state it leads to.)
C8_OrderAmended ==
    (InRunFullEtl /\ commits # <<>>) =>
        LET t == commits[Len(commits)][1] IN
        /\ \A u \in TableNames :
             (Precedes(u, t) /\ FileExists(data_path, u)) =>
                 /\ LoadEnded(u)
                 /\ (status[u] = "Completed" =>
                       StoredLog[u] >= NumBatches(data_path, u))
        /\ (Len(commits) > 1 =>
              ~Precedes(t, commits[Len(commits) - 1][1]))

\* C8 witness: the load of courses failed and a later table was committed.
C8_Witness ==
    /\ Len(AvailableTables(data_path)) = Len(execution_order)
    /\ status["courses"] = "Failed"
    /\ CommittedIn("vle") # <<>>
    /\ CommittedIn("studentVle") # <<>>

ExceptionStages ==
    {"lookup", "read", "transform", "to_sql", "update_log", "commit"}

\* Every available table has had its load invoked and ended.
EveryLoadEnded ==
    /\ available_tables # <<>>
    /\ \A n \in 1..Len(available_tables) : LoadEnded(available_tables[n])

\* C9: an exception raised while looking up the resume point, reading,
\* transforming or committing ends the load of its table only: the call
\* returns normally and every later available table is loaded.
C9_FailureContained ==
    (pc \in {"done", "raised"} /\ failStage \in ExceptionStages) =>
        (pc = "done" /\ EveryLoadEnded)

\* C9 as amended: the same of an exception raised while reading,
\* transforming or committing; the lookup of the resume point is outside.
C9_ContainedInsideTry ==
    (pc \in {"done", "raised"}
        /\ failStage \in ExceptionStages \ {"lookup"}) =>
        (pc = "done" /\ EveryLoadEnded)

\* C9 witness: the read of courses failed and the run went on to complete
\* the last table.
C9_Witness ==
    /\ pc = "done"
    /\ failStage = "read"
    /\ status["courses"] = "Failed"
    /\ status["studentVle"] = "Completed"

\* The call is a run_full_etl without reset that follows a run_full_etl
\* over the same source in which every load completed.
RepeatsCompletedRun ==
    /\ InRunFullEtl
    /\ ~clear_existing
    /\ srcIdx = 1
    /\ prev.lastCompleted
    /\ prev.sources # <<>>
    /\ prev.sources[Len(prev.sources)] = data_path

\* C10: a run_full_etl without reset over the source of a run_full_etl
\* that completed every table commits nothing and changes no table and no
\* checkpoint.
C10_IdempotentRestart ==
    RepeatsCompletedRun =>
        /\ commits = <<>>
        /\ ~txn.open
        /\ rows = startRows
        /\ etl_log = startLog

\* C10 witness: the second run is over, every load of it completed.
C10_Witness ==
    /\ RepeatsCompletedRun
    /\ pc = "done"
    /\ data_path = "data"
    /\ AllCompleted(status)
    /\ available_tables = execution_order
    /\ rows["courses"] # <<>>

\* ------------------------------------------- a run retried over one source
\* run_full_etl without reset, called again and again over the source of
\* the first call.  The calls are not counted, so the event budget bounds
\* the failures only: they stop, the re-invocations do not.
Rerun ==
    /\ pc = "idle"
    /\ \E path \in {"data", "data_2"} :
         /\ prev.sources \in {<<>>, <<path>>}
         /\ sources' = <<path>>
         /\ EnterRunFullEtl(path, FALSE)
    /\ srcIdx' = 1
    /\ entry' = "direct"
    /\ runs' = 1
    /\ failStage' = "none"
    /\ invOk' = TRUE
    /\ invRows' = rows
    /\ UNCHANGED <<env, db, faults, pre, prev>>

RetryNext ==
    \/ Rerun
    \/ Summary
    \/ SetupEtlLogTable
    \/ Preload
    \/ Lookup
    \/ LookupRaises
    \/ NextChunk
    \/ ReadFails
    \/ Transform
    \/ TransformFails
    \/ ToSql
    \/ ToSqlFails
    \/ UpdateEtlLog
    \/ UpdateEtlLogFails
    \/ Commit
    \/ CommitFails
    \/ Interrupt
    \/ Return
    \/ Unwind

\* The program is sequential and always takes its next step, and the run
\* is invoked again whenever the last one is over.
RetrySpec == Init /\ [][RetryNext]_vars /\ WF_vars(RetryNext)

\* The source of the retried runs, once there is one.
RetriedSource ==
    IF sources # <<>> THEN sources
    ELSE prev.sources

\* No row of a file is stored twice, and the stored rows of each table are
\* the first chunks of its file, in order.
NoBatchTwice ==
    RetriedSource # <<>> =>
        \A t \in TableNames :
            IF FileExists(RetriedSource[1], t)
              THEN /\ StoredLog[t] <= NumBatches(RetriedSource[1], t)
                   /\ StoredRows[t] =
                        ChunksUpTo(RetriedSource[1], t, StoredLog[t])
              ELSE StoredRows[t] = <<>>

\* Every chunk of every file of the source is stored, once.
EveryBatchOnce ==
    /\ RetriedSource # <<>>
    /\ \A t \in TableNames :
         FileExists(RetriedSource[1], t) =>
            StoredRows[t] = ChunksUpTo(RetriedSource[1], t,
                                       NumBatches(RetriedSource[1], t))

\* C11: over runs of one source without reset no chunk is committed more
\* than once; and when the run is invoked again and again and the failures
\* stop, every chunk of every table of the source ends up committed exactly
\* once, and stays so.
C11_ExactlyOnce == []NoBatchTwice /\ <>[]EveryBatchOnce

\* C11 witness: a run after a failed one has completed every table, and
\* every chunk is stored once.
C11_Witness ==
    /\ pc = "done"
    /\ ~prev.completed
    /\ prev.sources = sources
    /\ faults > 0
    /\ commits # <<>>
    /\ AllCompleted(status)
    /\ EveryBatchOnce

\* ------------------------------------- ./data_2/ without studentInfo.csv
CutInit == Fresh /\ fs = "cut" /\ NoChunk

CutSpec == CutInit /\ [][Next]_vars

\* The source has both files main calls essential.
HasEssentialFiles(path) ==
    FileExists(path, "courses") /\ FileExists(path, "studentInfo")

NothingLoaded == commits = <<>> /\ status = NotStarted /\ ~txn.open

\* C12: run_full_etl loads no table and commits no chunk of a source that
\* lacks courses.csv or studentInfo.csv.
C12_SourceValidated ==
    (InRunFullEtl /\ ~HasEssentialFiles(data_path)) => NothingLoaded

\* C12 as amended: main hands run_multi_source_etl only the sources that
\* have courses.csv and studentInfo.csv, and run_full_etl itself loads no
\* table and commits no chunk of a source without courses.csv (a source
\* that lacks only studentInfo.csv it does load).
C12_ValidatedByMain ==
    /\ entry = "main" =>
          \A n \in 1..Len(sources) : HasEssentialFiles(sources[n])
    /\ (InRunFullEtl /\ ~FileExists(data_path, "courses")) => NothingLoaded

\* C12 witness: after run_full_etl gave up on a source without courses.csv,
\* main, with ./data_2/ lacking studentInfo.csv, has loaded ./data/ alone.
C12_Witness ==
    /\ fs = "cut"
    /\ prev.sources = <<"no_courses">>
    /\ entry = "main"
    /\ sources = <<"data">>
    /\ pc = "done"
    /\ commits # <<>>

\* ------------------------------------------------- multi-source reset
\* run_multi_source_etl is past the reset of its first source.
FirstSourceStarted ==
    /\ entry = "main"
    /\ \/ srcIdx > 1
       \/ srcIdx = 1 /\ pc \notin {"summary", "clear_tables", "clear_logs"}

\* No stored row and no checkpoint is taken away by the step.
NothingDeleted ==
    \A t \in TableNames :
      /\ IsPrefix(StoredRows[t], StoredRows'[t])
      /\ StoredLog[t] <= StoredLog'[t]

\* C13: run_multi_source_etl calls run_full_etl on the sources in the order
\* of its list, with the reset flag true for the first and false for every
\* later one; once the first source is past its reset, no step of the
\* invocation deletes a stored row or a checkpoint.
C13_ResetPolicy ==
    /\ [](entry = "main" =>
            /\ srcIdx \in 1..Len(sources)
            /\ data_path = sources[srcIdx]
            /\ clear_existing = (srcIdx = 1))
    /\ [][(entry = "main" /\ entry' = "main") =>
            srcIdx' \in {srcIdx, srcIdx + 1}]_vars
    /\ [][FirstSourceStarted => NothingDeleted]_vars

\* C13 witness: the second of two sources commits a chunk, without reset,
\* next to the stored rows of the first.
C13_Witness ==
    /\ entry = "main"
    /\ Len(sources) = 2
    /\ srcIdx = 2
    /\ ~clear_existing
    /\ commits # <<>>
    /\ <<"data", 1>> \in Range(StoredRows["courses"])
    /\ <<"data_2", 5>> \in Range(StoredRows["courses"])

\* -------------------------------------------------- transform functions
\* A cell of a data frame: a number, or the missing value read_csv makes of
\* "?" and "".  Scores are counted in tenths (399 is 39.9).
NaN == [isna |-> TRUE, v |-> 0]
Num(x) == [isna |-> FALSE, v |-> x]
isna(cell) == cell.isna

None == "None"
PassMark == 400

\* The column set of a data frame (of its rows, all alike).
Columns(df) == IF df = <<>> THEN {} ELSE DOMAIN df[1]

Concat(seqs) ==
    LET RECURSIVE Cat(_)
        Cat(n) == IF n = 0 THEN <<>> ELSE Cat(n - 1) \o seqs[n]
    IN Cat(Len(seqs))

\* The rows of right with the key of the row, in the order of right.
MatchesOn(row, right, on) ==
    SelectSeq(right, LAMBDA c : \A k \in on : c[k] = row[k])

\* pd.merge(left, right, on=on, how="left"): every row of left, in order,
\* once with each row of right of the same key, or once with the columns
\* of right missing when right has no such row.
pd_merge(left, right, on) ==
    Concat([n \in 1..Len(left) |->
              IF MatchesOn(left[n], right, on) = <<>>
                THEN <<left[n] @@ [module_presentation_length |-> NaN]>>
                ELSE [m \in 1..Len(MatchesOn(left[n], right, on)) |->
                        left[n] @@
                        [module_presentation_length |->
                           Num(MatchesOn(left[n], right, on)[m]
                                 .module_presentation_length)]]])

MergeKey == {"code_module", "code_presentation"}

\* The imputation of every date, whatever the assessment type.
ConditionAnyType(row) == isna(row.date)

condition(row) == row.assessment_type = "Exam" /\ isna(row.date)

transform_assessments(df, courses) ==
    [n \in 1..Len(pd_merge(df, courses, MergeKey)) |->
       LET row == pd_merge(df, courses, MergeKey)[n]
           imputed == IF condition(row)
                        THEN [row EXCEPT
                                !.date = row.module_presentation_length]
                        ELSE row
       IN [c \in Columns(df) |-> imputed[c]]]

\* A classification with the boundary score on the failing side.
ClassifyAboveMark(score) ==
    IF isna(score) THEN None
    ELSE IF score.v > PassMark THEN "Pass" ELSE "Fail"

classify_score(score) ==
    IF isna(score) THEN None
    ELSE IF score.v >= PassMark THEN "Pass" ELSE "Fail"

transform_student_assessment(df) ==
    [n \in 1..Len(df) |->
       [c \in DOMAIN df[n] \cup {"assessment_result"} |->
          IF c = "assessment_result" THEN classify_score(df[n].score)
          ELSE df[n][c]]]

transform_generic(df) == df

\* etl_plan: the transform function of each table.
etl_plan(t) ==
    CASE t = "assessments" -> "transform_assessments"
      [] t = "studentAssessment" -> "transform_student_assessment"
      [] OTHER -> "transform_generic"

\* The chunks and the courses the transform functions are tried on.
CourseKeys ==
    {[code_module |-> "AAA", code_presentation |-> "2013J"],
     [code_module |-> "AAA", code_presentation |-> "2014J"]}

Lengths == {240, 269}
Dates == {NaN, Num(19)}
AssessmentTypes == {"Exam", "TMA"}
Scores == {NaN, Num(0), Num(399), Num(400), Num(401)}

SeqsUpTo(S, n) == UNION {[1..k -> S] : k \in 0..n}

CoursesFrames ==
    SeqsUpTo({k @@ [module_presentation_length |-> l] :
                k \in CourseKeys, l \in Lengths}, MaxCourses)

\* The rows of a chunk carry their position as id_assessment.
Numbered(frames) ==
    {[n \in 1..Len(f) |-> f[n] @@ [id_assessment |-> n]] : f \in frames}

AssessmentChunks ==
    Numbered(SeqsUpTo({k @@ [assessment_type |-> ty, date |-> d] :
                         k \in CourseKeys, ty \in AssessmentTypes,
                         d \in Dates}, MaxChunkRows))

StudentAssessmentChunks ==
    Numbered(SeqsUpTo({[score |-> sc] : sc \in Scores}, MaxChunkRows))

GenericChunks ==
    Numbered(SeqsUpTo({[code_module |-> "AAA"]}, MaxChunkRows))

ChunksOf(t) ==
    CASE etl_plan(t) = "transform_assessments" -> AssessmentChunks
      [] etl_plan(t) = "transform_student_assessment" ->
           StudentAssessmentChunks
      [] OTHER -> GenericChunks

\* A chunk of some table has been read, with the courses preloaded.
TransformInit ==
    /\ Fresh
    /\ backend = "sqlite"
    /\ fs = "full"
    /\ table_name \in TableNames
    /\ chunk \in ChunksOf(table_name)
    /\ courses_df \in IF etl_plan(table_name) = "transform_assessments"
                        THEN CoursesFrames ELSE {<<>>}
    /\ transformed_chunk = <<>>
    /\ applied = FALSE

etl == <<backend, fs, db, pc, frame, loadVars, status, failStage, runs,
         faults, runHist, invRows, pre, invOk, prev>>

\* transformed_chunk = transform_func(chunk, **kwargs)
ApplyTransformAssessments ==
    /\ ~applied
    /\ etl_plan(table_name) = "transform_assessments"
    /\ transformed_chunk' = transform_assessments(chunk, courses_df)
    /\ applied' = TRUE
    /\ UNCHANGED <<etl, table_name, chunk, courses_df>>

ApplyTransformStudentAssessment ==
    /\ ~applied
    /\ etl_plan(table_name) = "transform_student_assessment"
    /\ transformed_chunk' = transform_student_assessment(chunk)
    /\ applied' = TRUE
    /\ UNCHANGED <<etl, table_name, chunk, courses_df>>

ApplyTransformGeneric ==
    /\ ~applied
    /\ etl_plan(table_name) = "transform_generic"
    /\ transformed_chunk' = transform_generic(chunk)
    /\ applied' = TRUE
    /\ UNCHANGED <<etl, table_name, chunk, courses_df>>

TransformNext ==
    \/ ApplyTransformAssessments
    \/ ApplyTransformStudentAssessment
    \/ ApplyTransformGeneric

TransformSpec == TransformInit /\ [][TransformNext]_vars

\* C14: transform_student_assessment returns the rows of the chunk in
\* their order, each with its score as it was and with assessment_result
\* "Fail" for a score below 40, "Pass" for a score of 40 or more, and null
\* for a missing score.
C14_ScoreClassification ==
    (applied /\ etl_plan(table_name) = "transform_student_assessment") =>
      /\ Len(transformed_chunk) = Len(chunk)
      /\ \A n \in 1..Len(chunk) :
           /\ transformed_chunk[n].score = chunk[n].score
           /\ transformed_chunk[n].id_assessment = chunk[n].id_assessment
           /\ ~isna(chunk[n].score) /\ chunk[n].score.v < PassMark =>
                transformed_chunk[n].assessment_result = "Fail"
           /\ ~isna(chunk[n].score) /\ chunk[n].score.v >= PassMark =>
                transformed_chunk[n].assessment_result = "Pass"
           /\ isna(chunk[n].score) =>
                transformed_chunk[n].assessment_result = None

\* C14 witness: a chunk with the score 40 and a missing score, classified.
C14_Witness ==
    /\ applied
    /\ etl_plan(table_name) = "transform_student_assessment"
    /\ Len(chunk) = 2
    /\ chunk[1].score = Num(PassMark)
    /\ chunk[2].score = NaN
    /\ transformed_chunk[1].assessment_result = "Pass"
    /\ transformed_chunk[2].assessment_result = None

\* The courses of courses_df with the (code_module, code_presentation) of
\* the row.
CoursesOf(row) ==
    {c \in Range(courses_df) :
       /\ c.code_module = row.code_module
       /\ c.code_presentation = row.code_presentation}

\* C15: every row of an assessments chunk comes out of
\* transform_assessments with the columns of the chunk and all its values
\* but the date as they were; its date is the module_presentation_length
\* of a course of its (code_module, code_presentation) when it is an Exam
\* with a missing date and there is such a course, and is the date it had
\* in every other case.
C15_ExamDateImputation ==
    (applied /\ etl_plan(table_name) = "transform_assessments") =>
      /\ \A n \in 1..Len(chunk) :
           \E m \in 1..Len(transformed_chunk) :
             transformed_chunk[m].id_assessment = n
      /\ \A m \in 1..Len(transformed_chunk) :
           LET out == transformed_chunk[m]
               row == chunk[out.id_assessment]
           IN /\ DOMAIN out = DOMAIN row
              /\ \A c \in DOMAIN row \ {"date"} : out[c] = row[c]
              /\ IF /\ row.assessment_type = "Exam"
                    /\ isna(row.date)
                    /\ CoursesOf(row) # {}
                   THEN \E c \in CoursesOf(row) :
                          out.date = Num(c.module_presentation_length)
                   ELSE out.date = row.date

\* C15 witness: an Exam without date of a course of length 269 comes out
\* with date 269, next to a TMA whose missing date is left missing.
C15_Witness ==
    /\ applied
    /\ etl_plan(table_name) = "transform_assessments"
    /\ Len(chunk) = 2
    /\ Len(courses_df) = 1
    /\ courses_df[1].module_presentation_length = 269
    /\ chunk[1].assessment_type = "Exam"
    /\ chunk[1].date = NaN
    /\ CoursesOf(chunk[1]) # {}
    /\ chunk[2].assessment_type = "TMA"
    /\ chunk[2].date = NaN
    /\ Len(transformed_chunk) = 2
    /\ transformed_chunk[1].date = Num(269)
    /\ transformed_chunk[2].date = NaN

\* C19: transform_assessments returns one row for each row of the chunk,
\* in the order of the chunk, whatever courses_df holds.
C19_RowPreservation ==
    (applied /\ etl_plan(table_name) = "transform_assessments") =>
      /\ Len(transformed_chunk) = Len(chunk)
      /\ \A n \in 1..Len(chunk) : transformed_chunk[n].id_assessment = n

\* ------------------------------------------------------ in-order commits
\* process_csv_to_db is between the skip test and the end of the
\* transaction of a chunk.
InChunkWork == pc \in {"transform", "to_sql", "update_log", "commit"}

\* C16: in a load of a table, a chunk whose index is at most the resume
\* point read at the start is passed over with no transform, no write and
\* no checkpoint update; a chunk that is transformed and written has the
\* index one above the stored checkpoint of the table, update_etl_log is
\* called with that index, and a stored checkpoint rises only by one, at
\* the commit of that chunk.
C16_InOrderCommits ==
    /\ [](InChunkWork =>
            /\ chunk_index > start_chunk
            /\ chunk_index = StoredLog[CurrentTable] + 1)
    /\ [][(pc = "next_chunk" /\ chunk_index' = chunk_index + 1
             /\ chunk_index' <= start_chunk) =>
            (pc' = "next_chunk" /\ UNCHANGED db)]_vars
    /\ [][(pc = "update_log" /\ pc' = "commit") =>
            /\ etl_log'[CurrentTable] = StoredLog[CurrentTable] + 1
            /\ \A t \in TableNames \ {CurrentTable} :
                 etl_log'[t] = etl_log[t]]_vars
    /\ [][\A t \in TableNames :
            StoredLog'[t] > StoredLog[t] =>
              /\ pc = "commit"
              /\ t = CurrentTable
              /\ StoredLog'[t] = chunk_index
              /\ StoredLog'[t] = StoredLog[t] + 1]_vars

\* C16 witness: a load that resumed after chunk 1 has passed over chunk 1
\* and committed chunks 2 and 3, in this order.
C16_Witness ==
    /\ pc = "next_chunk"
    /\ start_chunk = 1
    /\ chunk_index = 3
    /\ CommittedIn(CurrentTable) =
         <<<<CurrentTable, data_path, 2>>, <<CurrentTable, data_path, 3>>>>
    /\ StoredLog[CurrentTable] = 3

\* ------------------------------------------------- frame of a table load
\* The flow of control is inside process_csv_to_db.
InLoad ==
    pc \in {"lookup", "next_chunk", "transform", "to_sql", "update_log",
            "commit"}

\* C17: no step of the load of a table, a failing one included, changes
\* the rows or the checkpoint of another table.
C17_LoadFrame ==
    [][InLoad =>
         \A t \in TableNames \ {CurrentTable} :
           /\ rows'[t] = rows[t]
           /\ etl_log'[t] = etl_log[t]
           /\ StoredRows'[t] = StoredRows[t]
           /\ StoredLog'[t] = StoredLog[t]]_vars

\* C17 witness: the load of the second table failed at its commit and the
\* third is being written, with the first table as its load left it.
C17_Witness ==
    /\ pc = "commit"
    /\ tbl = 3
    /\ status[available_tables[1]] = "Completed"
    /\ status[available_tables[2]] = "Failed"
    /\ failStage = "commit"
    /\ rows[available_tables[1]] =
         ChunksUpTo(data_path, available_tables[1],
                    NumBatches(data_path, available_tables[1]))
    /\ rows[available_tables[2]] = <<>>
    /\ rows[CurrentTable] # <<>>

\* ------------------------------------------------ checkpoint monotonicity
\* The flow of control is inside clear_data_tables.
InReset == pc \in {"clear_tables", "clear_logs"}

\* C18: outside a reset no step lowers the stored checkpoint of a table,
\* and a step that changes it is the successful commit of a chunk of that
\* table, which stores the rows of the chunk with it.
C18_CheckpointMonotonic ==
    [][~InReset =>
         \A t \in TableNames :
           /\ StoredLog[t] <= StoredLog'[t]
           /\ StoredLog'[t] # StoredLog[t] =>
                /\ pc = "commit"
                /\ pc' = "next_chunk"
                /\ t = CurrentTable
                /\ commits' = Append(commits, <<t, data_path, StoredLog'[t]>>)
                /\ StoredRows'[t] =
                     StoredRows[t] \o Chunk(data_path, t, StoredLog'[t])]_vars

\* C18 witness: in the second of two sources, loaded without reset, the
\* checkpoint of courses has risen from the 2 the first source left to 3.
C18_Witness ==
    /\ entry = "main"
    /\ srcIdx = 2
    /\ ~clear_existing
    /\ startLog["courses"] = 2
    /\ StoredLog["courses"] = 3
    /\ failStage = "none"

\* ------------------------------------------------------------ termination
\* The steps the program takes by itself, once main or run_full_etl has
\* been called.
Proceed ==
    \/ Summary
    \/ ClearDataTables
    \/ ClearEtlLogs
    \/ SetupEtlLogTable
    \/ Preload
    \/ Lookup
    \/ LookupRaises
    \/ NextChunk
    \/ ReadFails
    \/ Transform
    \/ TransformFails
    \/ ToSql
    \/ ToSqlFails
    \/ UpdateEtlLog
    \/ UpdateEtlLogFails
    \/ Commit
    \/ CommitFails
    \/ Interrupt
    \/ Return
    \/ Unwind

\* run_full_etl is called, any number of times, and runs.
CallNext == Direct \/ Proceed

\* A called program goes on running until it returns or raises.
LiveSpec == Init /\ [][CallNext]_vars /\ WF_vars(Proceed)

\* The tables of the execution order whose file the source holds.
PresentTables ==
    SelectSeq(execution_order, LAMBDA t : FileExists(data_path, t))

Ended(t) == status[t] \in {"Completed", "Failed"}

\* The load was invoked for every table whose file is present and for no
\* other, and each load has ended.
EveryPresentTableLoaded ==
    \A t \in TableNames :
      IF FileExists(data_path, t) THEN Ended(t)
      ELSE status[t] = "NotStarted"

\* The load of a table is invoked at most once, and when it is, the loads
\* of the present tables before it have ended and no later one has begun.
LoadsOnceInOrder ==
    \A t \in TableNames :
      (status[t] # "Streaming" /\ status'[t] = "Streaming") =>
        /\ status[t] = "NotStarted"
        /\ FileExists(data_path, t)
        /\ \A u \in TableNames \ {t} :
             IF FileExists(data_path, u) /\ Precedes(u, t)
               THEN Ended(u) /\ status'[u] = status[u]
               ELSE status'[u] = "NotStarted"

LoadedPrefix ==
    /\ \A n \in 1..Len(available_tables) :
         /\ n < tbl => Ended(available_tables[n])
         /\ n > tbl => status[available_tables[n]] = "NotStarted"
    /\ \A t \in TableNames \ Range(available_tables) :
         status[t] = "NotStarted"

====
